---------------------------- MODULE Spec2Model ----------------------------
(***************************************************************************)
(* Vikunja voice assistant: the task resolution pipeline.                  *)
(*                                                                         *)
(* VikunjaAddTaskIntentHandler.async_handle receives a task description,   *)
(* handle_vikunja_task checks the configuration, fetches the projects,     *)
(* calls process_with_openai (which posts to the LLM and extracts the JSON *)
(* region of the reply) and finally asks Vikunja to add the task.  Every   *)
(* await on a collaborator is a suspension point, so each action below is  *)
(* the code that runs between two suspension points.  The model follows    *)
(* one invocation of the intent handler from its start to its end.         *)
(*                                                                         *)
(* Text is modelled at the granularity the code inspects it:               *)
(*   - a task description is a sequence of characters (strip() looks at    *)
(*     the characters);                                                    *)
(*   - an LLM reply is a sequence of lexemes: the braces, object members   *)
(*     (a key with its value and separator) and prose words (find, rfind   *)
(*     and json.loads look at the braces and at the members).              *)
(***************************************************************************)
EXTENDS Naturals, Integers, Sequences, FiniteSets, TLC

VARIABLES
    config,            \* hass.data[DOMAIN]: the three required settings
    pc,                \* position of the request in async_handle / handle_vikunja_task
    task_description,  \* slot value of the request being handled
    projects,          \* result of vikunja_api.get_projects
    llm_result,        \* what the POST to the LLM produced
    raw_response,      \* content of the LLM reply (process_with_openai)
    openai_response,   \* return value of process_with_openai
    task_data,         \* the dict handed to vikunja_api.add_task
    outcome,           \* the tuple returned by handle_vikunja_task
    speech,            \* speech set on the IntentResponse
    add_task_result,   \* what vikunja_api.add_task produced
    raised,            \* where an exception that left async_handle was raised, or "none"
    calls,             \* collaborator calls issued by this request, in order
    inflight           \* collaborator calls issued and not yet returned

pipelineVars == <<config, pc, task_description, projects, llm_result, raw_response,
                  openai_response, task_data, outcome, speech, add_task_result, raised,
                  calls, inflight>>

\* process_with_openai building the prompt: the clock and the five values read from it
VARIABLES
    clock,             \* the wall clock, in seconds since the epoch (UTC)
    ticks,             \* seconds the clock advanced while the prompt was built
    prompt_pc,         \* number of datetime.now() reads done, or "built"
    default_due_date,  \* the CONF_DUE_DATE policy
    current_timestamp, \* strftime("%Y-%m-%dT%H:%M:%SZ") of the first read
    current_date,      \* strftime("%Y-%m-%d") of the second read
    tomorrow,          \* third read + 1 day at 12:00:00
    end_of_week,       \* fourth read + 7 days at 17:00:00
    end_of_month,      \* fifth read + 30 days at 17:00:00
    default_due_date_value  \* the value put into the default due date rule

promptVars == <<clock, ticks, prompt_pc, default_due_date, current_timestamp,
                current_date, tomorrow, end_of_week, end_of_month,
                default_due_date_value>>

\* the user cache manager and the config entry that owns it
VARIABLES
    entry_state,       \* "not_loaded", "loaded", "unloaded" or "setup_failed"
    entry_domain,      \* domain of the config entry given to async_setup_entry
    enable_user_assign, \* CONF_ENABLE_USER_ASSIGN of the entry
    store,             \* the durable store: "absent", "corrupt" or a mapping
    users,             \* user_cache_manager.data.users, the snapshot
    last_refreshed_at, \* when the snapshot was last replaced (0: never)
    refresh_in_flight, \* the coalescing flag
    fetching,          \* refresh calls whose fetch of the user list is in flight
    timer_scheduled,   \* the periodic refresh is armed
    service_registered, \* refresh_user_cache is registered
    setup_refresh_pending, \* the task created at setup has not started yet
    n_started,         \* refresh calls made so far
    last_call          \* the most recent refresh call and how it ended so far

cacheVars == <<entry_state, entry_domain, enable_user_assign, store, users,
               last_refreshed_at, refresh_in_flight, fetching, timer_scheduled,
               service_registered, setup_refresh_pending, n_started, last_call>>

\* async_migrate_old_domain and the config entries it works on
VARIABLES
    old_entries,       \* config entries of OLD_DOMAIN: entry_id -> URL
    new_entries,       \* config entries of DOMAIN: the URLs they hold
    migrate_pc,        \* "idle", "loop", "flow" or "removing"
    todo,              \* the old entries the running loop has still to visit
    data_old,          \* OLD_DOMAIN in hass.data
    data_new,          \* DOMAIN in hass.data
    runs,              \* runs of async_setup so far
    original_urls,     \* URLs the old entries held before the first run
    last_removed       \* the old entry removed last and why

migrateVars == <<old_entries, new_entries, migrate_pc, todo, data_old, data_new,
                 runs, original_urls, last_removed>>

vars == <<pipelineVars, promptVars, cacheVars, migrateVars>>

---------------------------------------------------------------------------
(* Bounds *)

MaxDescLen == 2
MaxReplyLen == 5
MaxStartDay == 1
MaxTicks == 2
MaxOldEntries == 2
MaxRuns == 2
MaxRefreshCalls == 3

---------------------------------------------------------------------------
(* Values *)

None == "None"

\* characters of a task description; the first is whitespace for str.strip
Whitespace == {" "}
DescChars == Whitespace \cup {"m"}

\* values a configuration setting can have: absent (None), empty, or set
SettingValues == {None, "", "set"}

\* lexemes of an LLM reply
LBRACE == "{"
RBRACE == "}"
TitleLexemes == {"\"title\": \"Buy milk\"", "\"title\": \"\"", "\"title\": \" \""}
MemberLexemes == TitleLexemes \cup {"\"description\": \"\""}
ProseLexemes == {"Sure"}
ReplyLexemes == {LBRACE, RBRACE} \cup MemberLexemes \cup ProseLexemes

MemberKey(m) == IF m \in TitleLexemes THEN "title" ELSE "description"

MemberValue(m) ==
    CASE m = "\"title\": \"Buy milk\"" -> "Buy milk"
      [] m = "\"title\": \"\"" -> ""
      [] m = "\"title\": \" \"" -> " "
      [] OTHER -> ""

SeqsUpTo(S, n) == UNION {[1..k -> S] : k \in 0..n}

Descriptions == SeqsUpTo(DescChars, MaxDescLen)
Replies == SeqsUpTo(ReplyLexemes, MaxReplyLen)

\* user-facing texts
MSG_INTENT_BLANK == "I couldn't understand what task you wanted to add. Please try again."
MSG_CONFIG == "Configuration error. Please check your Vikunja and OpenAI settings."
MSG_CONNECTION == "Sorry, I couldn't process your task due to a connection error. Please try again later."
MSG_NO_TITLE == "Sorry, I couldn't understand what task you wanted to create. Please try again."
MSG_ADD_FAILED == "Sorry, I couldn't add the task to Vikunja. Please check your Vikunja connection."
MSG_JSON_ERROR == "Sorry, there was an error processing your task. Please try again."
MSG_UNEXPECTED == "Sorry, an unexpected error occurred. Please try again."
MSG_SUCCESS_PREFIX == "Successfully added task: "

NoOutcome == [success |-> FALSE, message |-> "", task_title |-> ""]
Failure(msg) == [success |-> FALSE, message |-> msg, task_title |-> ""]

\* results of the collaborators
GetProjectsResults ==
    {[kind |-> "list", value |-> <<[id |-> 1, title |-> "Inbox"]>>],
     [kind |-> "not_dicts", value |-> <<>>],
     [kind |-> "raise", value |-> <<>>]}

LlmFailureKinds == {"timeout", "connector_error", "client_error", "status_not_200", "empty_choices"}

LlmResults ==
    {[kind |-> k, content |-> <<>>] : k \in LlmFailureKinds}
    \cup {[kind |-> "ok", content |-> r] : r \in Replies}

AddTaskResults == {"truthy", "falsy", "raise"}

---------------------------------------------------------------------------
(* Pure helpers *)

\* str.strip(): drop leading and trailing whitespace
RECURSIVE LStrip(_)
LStrip(s) == IF s # <<>> /\ Head(s) \in Whitespace THEN LStrip(Tail(s)) ELSE s

RECURSIVE RStrip(_)
RStrip(s) ==
    IF s # <<>> /\ s[Len(s)] \in Whitespace THEN RStrip(SubSeq(s, 1, Len(s) - 1)) ELSE s

Strip(s) == RStrip(LStrip(s))

\* `not task_description.strip()`
DescriptionIsBlankNoStrip(desc) == desc = <<>>
DescriptionIsBlank(desc) == Strip(desc) = <<>>

\* Python truthiness of a setting
Truthy(v) == v \notin {None, ""}

\* `all([vikunja_url, vikunja_api_token, openai_api_key])`
ConfigCompleteNoKey(cfg) == Truthy(cfg.vikunja_url) /\ Truthy(cfg.vikunja_api_token)
ConfigComplete(cfg) ==
    Truthy(cfg.vikunja_url) /\ Truthy(cfg.vikunja_api_token) /\ Truthy(cfg.openai_api_key)

\* str.find / str.rfind, 0-based, -1 when absent
Find(s, ch) ==
    IF \E i \in 1..Len(s) : s[i] = ch
    THEN (CHOOSE i \in 1..Len(s) : s[i] = ch /\ \A j \in 1..(i - 1) : s[j] # ch) - 1
    ELSE -1

RFind(s, ch) ==
    IF \E i \in 1..Len(s) : s[i] = ch
    THEN (CHOOSE i \in 1..Len(s) : s[i] = ch /\ \A j \in (i + 1)..Len(s) : s[j] # ch) - 1
    ELSE -1

\* s[a:b] for 0 <= a < b <= len(s)
Slice(s, a, b) == SubSeq(s, a + 1, b)

\* the dict of a member list; a repeated key keeps its last value
RECURSIVE DictOf(_)
DictOf(ms) ==
    IF ms = <<>> THEN <<>>
    ELSE LET m == ms[Len(ms)]
             rest == DictOf(SubSeq(ms, 1, Len(ms) - 1))
         IN  IF \E i \in 1..Len(rest) : rest[i].key = MemberKey(m)
             THEN rest
             ELSE Append(rest, [key |-> MemberKey(m), value |-> MemberValue(m)])

HasKey(d, k) == \E i \in 1..Len(d) : d[i].key = k
Get(d, k) == IF HasKey(d, k) THEN (CHOOSE e \in {d[i] : i \in 1..Len(d)} : e.key = k).value ELSE None

\* json.loads of a text that starts with '{': one object of members, or JSONDecodeError
IsJsonObject(s) ==
    /\ Len(s) >= 2
    /\ s[1] = LBRACE
    /\ s[Len(s)] = RBRACE
    /\ \A i \in 2..(Len(s) - 1) : s[i] \in MemberLexemes

JsonLoads(s) ==
    IF IsJsonObject(s) THEN [error |-> FALSE, dict |-> DictOf(SubSeq(s, 2, Len(s) - 1))]
    ELSE [error |-> TRUE, dict |-> <<>>]


---------------------------------------------------------------------------
(* process_with_openai: what it returns for a result of the POST *)

\* `end_idx = raw_response.rfind('}') + 1`
EndIdxNoPlusOne(raw) == RFind(raw, RBRACE)
EndIdx(raw) == RFind(raw, RBRACE) + 1

StartIdx(raw) == Find(raw, LBRACE)

\* `if start_idx >= 0 and end_idx > start_idx`
HasJsonRegion(raw) == StartIdx(raw) >= 0 /\ EndIdx(raw) > StartIdx(raw)

\* `json_str = raw_response[start_idx:end_idx]`
JsonStr(raw) == Slice(raw, StartIdx(raw), EndIdx(raw))

\* `"title" not in task_data or not task_data["title"]`
TitleMissing(d) == ~HasKey(d, "title") \/ Get(d, "title") = ""

\* the try block around the extraction: json_str, or None on every failure
ExtractJson(raw) ==
    IF ~HasJsonRegion(raw) THEN None
    ELSE LET parsed == JsonLoads(JsonStr(raw))
         IN  IF parsed.error THEN None
             ELSE IF TitleMissing(parsed.dict) THEN None
             ELSE JsonStr(raw)

\* the raw_response the code reads from a result of the POST
RawResponseOf(r) == IF r.kind = "ok" THEN r.content ELSE <<>>

\* return value of process_with_openai: every failure of the POST is caught and
\* gives None; a 200 reply goes through the extraction
ProcessWithOpenAI(r) ==
    IF r.kind # "ok" THEN None ELSE ExtractJson(r.content)

---------------------------------------------------------------------------
(* handle_vikunja_task: the outcomes *)

SuccessNoTitle(title) ==
    [success |-> TRUE, message |-> MSG_SUCCESS_PREFIX, task_title |-> ""]
Success(title) ==
    [success |-> TRUE, message |-> MSG_SUCCESS_PREFIX \o title, task_title |-> title]

\* `if not openai_response`
OpenAIFailureOutcomeOther == Failure(MSG_NO_TITLE)
OpenAIFailureOutcome == Failure(MSG_CONNECTION)

\* the branches on the result of vikunja_api.add_task inside the try block
AddTaskOutcomeKeepsTitle(r, d) ==
    CASE r = "truthy" -> Success(Get(d, "title"))
      [] r = "falsy" -> [success |-> FALSE, message |-> MSG_ADD_FAILED,
                         task_title |-> Get(d, "title")]
      [] OTHER -> Failure(MSG_UNEXPECTED)
AddTaskOutcome(r, d) ==
    CASE r = "truthy" -> Success(Get(d, "title"))
      [] r = "falsy" -> Failure(MSG_ADD_FAILED)
      [] OTHER -> Failure(MSG_UNEXPECTED)

---------------------------------------------------------------------------
(* Rest states of the parts a specification does not exercise *)

\* DOMAIN of const.py (the name DOMAIN is taken by TLA+)
NEW_DOMAIN == "vikunja_voice_assistant"
OLD_DOMAIN == "vikunja"

\* a formatted time is the tuple of the fields strftime prints; "" is no field
EmptyValue == <<>>

PromptAtRest ==
    /\ clock = 0
    /\ ticks = 0
    /\ prompt_pc = "idle"
    /\ default_due_date = "none"
    /\ current_timestamp = EmptyValue
    /\ current_date = EmptyValue
    /\ tomorrow = EmptyValue
    /\ end_of_week = EmptyValue
    /\ end_of_month = EmptyValue
    /\ default_due_date_value = EmptyValue

NoStore == [state |-> "absent", users |-> {}]
NoCall == [src |-> "none", force |-> FALSE, state |-> "none", n |-> 0, fetched |-> {}]

CacheAtRest ==
    /\ entry_state = "not_loaded"
    /\ entry_domain = NEW_DOMAIN
    /\ enable_user_assign = FALSE
    /\ store = NoStore
    /\ users = {}
    /\ last_refreshed_at = 0
    /\ refresh_in_flight = FALSE
    /\ fetching = {}
    /\ timer_scheduled = FALSE
    /\ service_registered = FALSE
    /\ setup_refresh_pending = FALSE
    /\ n_started = 0
    /\ last_call = NoCall

NoRemoval == [entry_id |-> 0, url |-> "", why |-> "none"]

MigrateAtRest ==
    /\ old_entries = <<>>
    /\ new_entries = {}
    /\ migrate_pc = "idle"
    /\ todo = <<>>
    /\ data_old = FALSE
    /\ data_new = FALSE
    /\ runs = 0
    /\ original_urls = {}
    /\ last_removed = NoRemoval

---------------------------------------------------------------------------
(* State machine *)

NoProjects == <<>>
NoLlmResult == [kind |-> "none", content |-> <<>>]

Init ==
    /\ config \in [vikunja_url : SettingValues,
                   vikunja_api_token : SettingValues,
                   openai_api_key : SettingValues]
    /\ pc = "idle"
    /\ task_description = <<>>
    /\ projects = NoProjects
    /\ llm_result = NoLlmResult
    /\ raw_response = <<>>
    /\ openai_response = None
    /\ task_data = <<>>
    /\ outcome = NoOutcome
    /\ speech = ""
    /\ add_task_result = "none"
    /\ raised = "none"
    /\ calls = <<>>
    /\ inflight = {}
    /\ PromptAtRest
    /\ CacheAtRest
    /\ MigrateAtRest

\* the request returns `out` from handle_vikunja_task and async_handle speaks it
Finish(out) ==
    /\ outcome' = out
    /\ speech' = out.message
    /\ pc' = "done"
    /\ inflight' = {}

\* `projects = await hass.async_add_executor_job(vikunja_api.get_projects)`
FetchProjectsWithLlm ==
    /\ pc' = "get_projects"
    /\ calls' = <<"get_projects", "openai">>
    /\ inflight' = {"get_projects", "openai"}
FetchProjects ==
    /\ pc' = "get_projects"
    /\ calls' = <<"get_projects">>
    /\ inflight' = {"get_projects"}

\* async_handle up to its first suspension point: the blank check, then
\* handle_vikunja_task's configuration check and the dispatch of get_projects
async_handle(desc) ==
    /\ task_description' = desc
    /\ projects' = NoProjects
    /\ llm_result' = NoLlmResult
    /\ raw_response' = <<>>
    /\ openai_response' = None
    /\ task_data' = <<>>
    /\ raised' = "none"
    /\ UNCHANGED <<config, add_task_result>>
    /\ IF DescriptionIsBlank(desc)
       THEN /\ speech' = MSG_INTENT_BLANK
            /\ outcome' = NoOutcome
            /\ pc' = "done"
            /\ calls' = <<>>
            /\ inflight' = {}
       ELSE IF ~ConfigComplete(config)
       THEN /\ Finish(Failure(MSG_CONFIG))
            /\ calls' = <<>>
       ELSE /\ FetchProjects
            /\ outcome' = NoOutcome
            /\ speech' = ""

\* get_projects returns or raises, outside any try block; process_with_openai
\* builds the prompt from the projects (`p.get(...) for p in projects`, also
\* outside any try block) and posts it to the LLM
get_projects_returns(r) ==
    /\ UNCHANGED <<config, task_description, llm_result, raw_response,
                   openai_response, task_data, outcome, speech, add_task_result>>
    /\ IF r.kind \in {"raise", "not_dicts"}
       THEN /\ raised' = (IF r.kind = "raise" THEN "get_projects" ELSE "process_with_openai")
            /\ pc' = "done"
            /\ inflight' = {}
            /\ UNCHANGED <<projects, calls>>
       ELSE /\ projects' = r.value
            /\ pc' = "openai"
            /\ calls' = Append(calls, "openai")
            /\ inflight' = {"openai"}
            /\ UNCHANGED raised

\* the POST completes: process_with_openai returns, handle_vikunja_task checks
\* the return value, parses it again and dispatches add_task
openai_returns(r) ==
    /\ llm_result' = r
    /\ raw_response' = RawResponseOf(r)
    /\ openai_response' = ProcessWithOpenAI(r)
    /\ UNCHANGED <<config, task_description, projects, raised, add_task_result>>
    /\ IF openai_response' = None
       THEN /\ Finish(OpenAIFailureOutcome)
            /\ UNCHANGED <<task_data, calls>>
       ELSE LET parsed == JsonLoads(openai_response')
            IN  IF parsed.error
                THEN /\ Finish(Failure(MSG_JSON_ERROR))
                     /\ UNCHANGED <<task_data, calls>>
                ELSE IF Get(parsed.dict, "title") \in {None, ""}
                THEN /\ Finish(Failure(MSG_NO_TITLE))
                     /\ task_data' = parsed.dict
                     /\ UNCHANGED calls
                ELSE /\ task_data' = parsed.dict
                     /\ pc' = "add_task"
                     /\ calls' = Append(calls, "add_task")
                     /\ inflight' = {"add_task"}
                     /\ UNCHANGED <<outcome, speech>>

\* add_task returns or raises inside the try block
add_task_returns(r) ==
    /\ add_task_result' = r
    /\ Finish(AddTaskOutcome(r, task_data))
    /\ UNCHANGED <<config, task_description, projects, llm_result, raw_response,
                   openai_response, task_data, raised, calls>>

\* the position of the request decides which step runs; the step's input is
\* whatever the caller or the collaborator supplies
HandleIntent ==
    /\ pc = "idle"
    /\ \E desc \in Descriptions : async_handle(desc)
    /\ UNCHANGED <<promptVars, cacheVars, migrateVars>>
ProjectsFetched ==
    /\ pc = "get_projects"
    /\ \E r \in GetProjectsResults : get_projects_returns(r)
    /\ UNCHANGED <<promptVars, cacheVars, migrateVars>>
OpenAIResponded ==
    /\ pc = "openai"
    /\ \E r \in LlmResults : openai_returns(r)
    /\ UNCHANGED <<promptVars, cacheVars, migrateVars>>
TaskAdded ==
    /\ pc = "add_task"
    /\ \E r \in AddTaskResults : add_task_returns(r)
    /\ UNCHANGED <<promptVars, cacheVars, migrateVars>>

Next ==
    \/ HandleIntent
    \/ ProjectsFetched
    \/ OpenAIResponded
    \/ TaskAdded

Spec == Init /\ [][Next]_vars

TypeOK ==
    /\ pc \in {"idle", "get_projects", "openai", "add_task", "done"}
    /\ task_description \in Descriptions
    /\ raw_response \in Replies
    /\ raised \in {"none", "get_projects", "process_with_openai"}
    /\ outcome.success \in BOOLEAN

---------------------------------------------------------------------------
(* Vocabulary of the properties *)

AllWhitespace(s) == \A i \in 1..Len(s) : s[i] \in Whitespace

SettingMissing(v) == v = None \/ v = ""

ConfigurationMissing ==
    \/ SettingMissing(config.vikunja_url)
    \/ SettingMissing(config.vikunja_api_token)
    \/ SettingMissing(config.openai_api_key)

\* handle_vikunja_task was called and went past its configuration check
ResolveStarted == pc # "idle" /\ ~AllWhitespace(task_description)
PassedPreconditions == ResolveStarted /\ ~ConfigurationMissing

Issued(c) == \E i \in 1..Len(calls) : calls[i] = c
TimesIssued(c) == Cardinality({i \in 1..Len(calls) : calls[i] = c})

IsPrefix(s, t) == Len(s) <= Len(t) /\ \A i \in 1..Len(s) : s[i] = t[i]

FailureTexts ==
    {MSG_CONFIG, MSG_CONNECTION, MSG_NO_TITLE, MSG_ADD_FAILED, MSG_JSON_ERROR, MSG_UNEXPECTED}

\* the sub-regions of a reply that are one well-formed JSON object
ObjectRegions(raw) ==
    {ij \in (1..Len(raw)) \X (1..Len(raw)) :
        ij[1] < ij[2] /\ IsJsonObject(SubSeq(raw, ij[1], ij[2]))}

FieldsOf(raw, ij) == DictOf(SubSeq(raw, ij[1] + 1, ij[2] - 1))

TitleOf(raw, ij) == Get(FieldsOf(raw, ij), "title")

\* a '{' that is followed later by a '}'
HasBracePair(raw) ==
    \E i \in 1..Len(raw) : \E j \in (i + 1)..Len(raw) : raw[i] = LBRACE /\ raw[j] = RBRACE

\* the region from the first '{' to the last '}'
OuterRegion(raw) ==
    <<CHOOSE i \in 1..Len(raw) : raw[i] = LBRACE /\ \A k \in 1..(i - 1) : raw[k] # LBRACE,
      CHOOSE j \in 1..Len(raw) : raw[j] = RBRACE /\ \A k \in (j + 1)..Len(raw) : raw[k] # RBRACE>>

BlankTitles == {"", " "}

---------------------------------------------------------------------------
(* Properties *)

\* C1: a task description that is empty or whitespace-only ends the request with
\* the "couldn't understand what task you wanted to add" speech, and no project
\* fetch, no LLM call and no task creation is issued during the request.
C1_BlankDescriptionRejected ==
    (pc # "idle" /\ AllWhitespace(task_description)) =>
        /\ pc = "done"
        /\ speech = MSG_INTENT_BLANK
        /\ calls = <<>>
        /\ inflight = {}
        /\ raised = "none"

C1_Witness ==
    /\ pc = "done"
    /\ task_description = <<" ", " ">>
    /\ speech = MSG_INTENT_BLANK

\* C2: when the Vikunja URL, the Vikunja token or the OpenAI key is missing at
\* the start of handle_vikunja_task, it returns (False, configuration error, "")
\* and issues no project fetch, no LLM call and no task creation.
C2_MissingConfigurationRejected ==
    (ResolveStarted /\ ConfigurationMissing) =>
        /\ pc = "done"
        /\ outcome = [success |-> FALSE, message |-> MSG_CONFIG, task_title |-> ""]
        /\ calls = <<>>
        /\ inflight = {}

C2_Witness ==
    /\ pc = "done"
    /\ ~AllWhitespace(task_description)
    /\ config.vikunja_url = "set"
    /\ config.vikunja_api_token = "set"
    /\ config.openai_api_key = None
    /\ outcome.message = MSG_CONFIG

\* C3: every call of handle_vikunja_task ends by returning an outcome: whichever
\* step fails or raises, the result is an outcome with success = false and no
\* exception leaves the call.
C3_NoExceptionEscapes ==
    (ResolveStarted /\ pc = "done") =>
        /\ raised = "none"
        /\ outcome.message # ""

\* C4: when the LLM call times out, cannot connect or answers with a status other
\* than 200, the outcome is the failure with the connection-error text and
\* add_task is never called.
C4_LlmUnavailable ==
    llm_result.kind \in {"timeout", "connector_error", "status_not_200"} =>
        /\ pc = "done"
        /\ outcome = [success |-> FALSE, message |-> MSG_CONNECTION, task_title |-> ""]
        /\ ~Issued("add_task")

C4_Witness ==
    /\ llm_result.kind = "timeout"
    /\ pc = "done"
    /\ outcome.message = MSG_CONNECTION

\* C5: when the LLM call succeeds and the extraction fails (no JSON region,
\* malformed JSON or no title), the outcome carries the "couldn't understand"
\* text and not the connection-error text.
C5_ExtractionFailureText ==
    (llm_result.kind = "ok" /\ pc = "done" /\ ~Issued("add_task")) =>
        /\ outcome.message = MSG_NO_TITLE
        /\ outcome.message # MSG_CONNECTION

\* C6: when the extraction gave a draft and add_task returns a falsy result, the
\* outcome is the failure with the "couldn't add the task to Vikunja" text and an
\* empty task_title.
C6_CreateFailed ==
    add_task_result = "falsy" =>
        /\ pc = "done"
        /\ outcome = [success |-> FALSE, message |-> MSG_ADD_FAILED, task_title |-> ""]

C6_Witness ==
    /\ add_task_result = "falsy"
    /\ Get(task_data, "title") = "Buy milk"
    /\ outcome.message = MSG_ADD_FAILED

\* C7: in a call that passed the precondition checks the projects are read
\* exactly once and before the LLM call, the LLM call comes before the
\* extraction, add_task is issued at most once and only after the extraction
\* succeeded, and no step starts before the previous one has returned.
C7_StepsInSequence ==
    /\ IsPrefix(calls, <<"get_projects", "openai", "add_task">>)
    /\ Cardinality(inflight) <= 1
    /\ \A c \in inflight : calls # <<>> /\ c = calls[Len(calls)]
    /\ PassedPreconditions => TimesIssued("get_projects") = 1
    /\ Issued("openai") => ~("get_projects" \in inflight)
    /\ (llm_result # NoLlmResult \/ openai_response # None) =>
           Issued("openai") /\ ~("openai" \in inflight)
    /\ Issued("add_task") =>
           /\ openai_response # None
           /\ Get(task_data, "title") \notin {None, ""}
    /\ TimesIssued("add_task") <= 1

C7_Witness ==
    /\ PassedPreconditions
    /\ pc = "done"
    /\ calls = <<"get_projects", "openai", "add_task">>
    /\ add_task_result = "truthy"

\* C8 as stated: for every reply made of arbitrary prose before and after exactly
\* one well-formed JSON object with a non-empty title, the extraction succeeds and
\* the draft handed to add_task has exactly the fields and values of that object.
C8_AnyProseAroundObject ==
    (llm_result.kind = "ok" /\ Cardinality(ObjectRegions(raw_response)) = 1) =>
        \A ij \in ObjectRegions(raw_response) :
            TitleOf(raw_response, ij) \notin {None, ""} =>
                /\ Issued("add_task")
                /\ task_data = FieldsOf(raw_response, ij)

\* C8 amended: for every reply made of prose without '{' before, and prose
\* without '}' after, exactly one well-formed JSON object with a non-empty title,
\* the extraction succeeds and the draft handed to add_task has exactly the
\* fields and values of that object.
C8_BraceFreeProseAroundObject ==
    (llm_result.kind = "ok" /\ Cardinality(ObjectRegions(raw_response)) = 1) =>
        \A ij \in ObjectRegions(raw_response) :
            ( /\ TitleOf(raw_response, ij) \notin {None, ""}
              /\ \A k \in 1..(ij[1] - 1) : raw_response[k] # LBRACE
              /\ \A k \in (ij[2] + 1)..Len(raw_response) : raw_response[k] # RBRACE ) =>
                /\ Issued("add_task")
                /\ openai_response = SubSeq(raw_response, ij[1], ij[2])
                /\ task_data = FieldsOf(raw_response, ij)

C8_Witness ==
    /\ pc = "add_task"
    /\ raw_response = <<"Sure", LBRACE, "\"title\": \"Buy milk\"", RBRACE, "Sure">>
    /\ task_data = <<[key |-> "title", value |-> "Buy milk"]>>

\* C9: for every reply that has no '{' followed later by a '}', or whose JSON
\* object has a title that is absent, empty or whitespace-only, the extraction
\* fails and add_task is not called.
C9_NoTitleNoTask ==
    ( /\ llm_result.kind = "ok"
      /\ \/ ~HasBracePair(raw_response)
         \/ /\ HasBracePair(raw_response)
            /\ OuterRegion(raw_response) \in ObjectRegions(raw_response)
            /\ TitleOf(raw_response, OuterRegion(raw_response)) \in BlankTitles \cup {None} ) =>
        /\ openai_response = None
        /\ ~Issued("add_task")

\* C10: every outcome returned by handle_vikunja_task has one of two shapes:
\* success with a non-empty task_title that is the title of the draft handed to
\* add_task and a message that contains it, or failure with an empty task_title
\* and a non-empty message from the fixed set of user-facing texts.
C10_OutcomeShape ==
    (ResolveStarted /\ pc = "done" /\ raised = "none") =>
        \/ /\ outcome.success
           /\ add_task_result = "truthy"
           /\ outcome.task_title # ""
           /\ outcome.task_title = Get(task_data, "title")
           /\ outcome.message = MSG_SUCCESS_PREFIX \o outcome.task_title
           /\ outcome.message \notin FailureTexts
        \/ /\ ~outcome.success
           /\ add_task_result # "truthy"
           /\ outcome.task_title = ""
           /\ outcome.message # ""
           /\ outcome.message \in FailureTexts

C10_Witness ==
    /\ pc = "done"
    /\ outcome = [success |-> TRUE, message |-> "Successfully added task: Buy milk",
                  task_title |-> "Buy milk"]

---------------------------------------------------------------------------
(* process_with_openai: the dates of the prompt *)

SecondsPerDay == 86400
SecondsPerHour == 3600
SecondsPerMinute == 60

TomorrowDays == 1
EndOfWeekDays == 7
EndOfMonthDays == 30
NoonHour == 12
FivePmHour == 17

\* datetime.now(timezone.utc) at clock value t; days are numbered from the epoch
Datetime(t) ==
    [day |-> t \div SecondsPerDay,
     hour |-> (t % SecondsPerDay) \div SecondsPerHour,
     minute |-> (t % SecondsPerHour) \div SecondsPerMinute,
     second |-> t % SecondsPerMinute]

\* dt + timedelta(days=n)
PlusDays(dt, n) == [dt EXCEPT !.day = @ + n]

\* dt.replace(hour=h, minute=0, second=0)
ReplaceTime(dt, h) == [dt EXCEPT !.hour = h, !.minute = 0, !.second = 0]

\* strftime("%Y-%m-%dT%H:%M:%SZ") and strftime("%Y-%m-%d")
StrftimeTimestamp(dt) == <<dt.day, dt.hour, dt.minute, dt.second>>
StrftimeDate(dt) == <<dt.day>>

DueDatePolicies == {"none", "tomorrow", "end_of_week", "end_of_month", "next_year"}

\* the instants at which the building of a prompt starts
StartSeconds == {0, NoonHour * SecondsPerHour - 1, SecondsPerDay - 1}
StartInstants == {d * SecondsPerDay + sec : d \in 0..MaxStartDay, sec \in StartSeconds}

InitPrompt ==
    /\ clock \in StartInstants
    /\ ticks = 0
    /\ prompt_pc = "start"
    /\ default_due_date \in DueDatePolicies
    /\ current_timestamp = EmptyValue
    /\ current_date = EmptyValue
    /\ tomorrow = EmptyValue
    /\ end_of_week = EmptyValue
    /\ end_of_month = EmptyValue
    /\ default_due_date_value = EmptyValue
    /\ config = [vikunja_url |-> "set", vikunja_api_token |-> "set", openai_api_key |-> "set"]
    /\ pc = "get_projects"
    /\ task_description = <<"m">>
    /\ projects = NoProjects
    /\ llm_result = NoLlmResult
    /\ raw_response = <<>>
    /\ openai_response = None
    /\ task_data = <<>>
    /\ outcome = NoOutcome
    /\ speech = ""
    /\ add_task_result = "none"
    /\ raised = "none"
    /\ calls = <<"get_projects">>
    /\ inflight = {}
    /\ CacheAtRest
    /\ MigrateAtRest

\* the wall clock advances by a second while the prompt is being built
Tick ==
    /\ prompt_pc \notin {"idle", "built"}
    /\ ticks < MaxTicks
    /\ clock' = clock + 1
    /\ ticks' = ticks + 1
    /\ UNCHANGED <<prompt_pc, default_due_date, current_timestamp, current_date,
                   tomorrow, end_of_week, end_of_month, default_due_date_value>>
    /\ UNCHANGED <<pipelineVars, cacheVars, migrateVars>>

\* `current_timestamp = datetime.now(timezone.utc).strftime("%Y-%m-%dT%H:%M:%SZ")`
ReadCurrentTimestamp ==
    /\ prompt_pc = "start"
    /\ current_timestamp' = StrftimeTimestamp(Datetime(clock))
    /\ prompt_pc' = "current_timestamp"
    /\ UNCHANGED <<clock, ticks, default_due_date, current_date, tomorrow,
                   end_of_week, end_of_month, default_due_date_value>>
    /\ UNCHANGED <<pipelineVars, cacheVars, migrateVars>>

\* `current_date = datetime.now(timezone.utc).strftime("%Y-%m-%d")`
ReadCurrentDate ==
    /\ prompt_pc = "current_timestamp"
    /\ current_date' = StrftimeDate(Datetime(clock))
    /\ prompt_pc' = "current_date"
    /\ UNCHANGED <<clock, ticks, default_due_date, current_timestamp, tomorrow,
                   end_of_week, end_of_month, default_due_date_value>>
    /\ UNCHANGED <<pipelineVars, cacheVars, migrateVars>>

\* `tomorrow = (datetime.now(timezone.utc) + timedelta(days=1)).replace(hour=12, ...)`
ReadTomorrow ==
    /\ prompt_pc = "current_date"
    /\ tomorrow' =
         StrftimeTimestamp(ReplaceTime(PlusDays(Datetime(clock), TomorrowDays), NoonHour))
    /\ prompt_pc' = "tomorrow"
    /\ UNCHANGED <<clock, ticks, default_due_date, current_timestamp, current_date,
                   end_of_week, end_of_month, default_due_date_value>>
    /\ UNCHANGED <<pipelineVars, cacheVars, migrateVars>>

\* `end_of_week = (datetime.now(timezone.utc) + timedelta(days=7)).replace(hour=17, ...)`
ReadEndOfWeek ==
    /\ prompt_pc = "tomorrow"
    /\ end_of_week' =
         StrftimeTimestamp(ReplaceTime(PlusDays(Datetime(clock), EndOfWeekDays), FivePmHour))
    /\ prompt_pc' = "end_of_week"
    /\ UNCHANGED <<clock, ticks, default_due_date, current_timestamp, current_date,
                   tomorrow, end_of_month, default_due_date_value>>
    /\ UNCHANGED <<pipelineVars, cacheVars, migrateVars>>

\* `end_of_month = (datetime.now(timezone.utc) + timedelta(days=30)).replace(hour=17, ...)`
ReadEndOfMonth ==
    /\ prompt_pc = "end_of_week"
    /\ end_of_month' =
         StrftimeTimestamp(ReplaceTime(PlusDays(Datetime(clock), EndOfMonthDays), FivePmHour))
    /\ prompt_pc' = "end_of_month"
    /\ UNCHANGED <<clock, ticks, default_due_date, current_timestamp, current_date,
                   tomorrow, end_of_week, default_due_date_value>>
    /\ UNCHANGED <<pipelineVars, cacheVars, migrateVars>>

\* the default due date rule of the system message
DefaultDueDateValue(policy) ==
    CASE policy = "tomorrow" -> tomorrow
      [] policy = "end_of_week" -> end_of_week
      [] policy = "end_of_month" -> end_of_month
      [] OTHER -> EmptyValue

ComposePrompt ==
    /\ prompt_pc = "end_of_month"
    /\ default_due_date_value' = DefaultDueDateValue(default_due_date)
    /\ prompt_pc' = "built"
    /\ UNCHANGED <<clock, ticks, default_due_date, current_timestamp, current_date,
                   tomorrow, end_of_week, end_of_month>>
    /\ UNCHANGED <<pipelineVars, cacheVars, migrateVars>>

NextPrompt ==
    \/ Tick
    \/ ReadCurrentTimestamp
    \/ ReadCurrentDate
    \/ ReadTomorrow
    \/ ReadEndOfWeek
    \/ ReadEndOfMonth
    \/ ComposePrompt

SpecPrompt == InitPrompt /\ [][NextPrompt]_vars

\* C13: in every prompt today_date, tomorrow_noon, end_of_week_5pm and
\* end_of_month_5pm are derived from the same instant as now_iso: tomorrow is
\* 12:00:00 on today + 1 day, end of week 17:00:00 on today + 7 days and end of
\* month 17:00:00 on today + 30 days, also when the clock advances while the
\* prompt is being built.
C13_AnchorsFromOneInstant ==
    prompt_pc = "built" =>
        /\ current_date = <<current_timestamp[1]>>
        /\ tomorrow = <<current_date[1] + 1, 12, 0, 0>>
        /\ end_of_week = <<current_date[1] + 7, 17, 0, 0>>
        /\ end_of_month = <<current_date[1] + 30, 17, 0, 0>>

---------------------------------------------------------------------------
(* async_setup and async_migrate_old_domain *)

\* the pipeline while no intent is being handled
PipelineAtRest ==
    /\ config = [vikunja_url |-> "set", vikunja_api_token |-> "set", openai_api_key |-> "set"]
    /\ pc = "idle"
    /\ task_description = <<>>
    /\ projects = NoProjects
    /\ llm_result = NoLlmResult
    /\ raw_response = <<>>
    /\ openai_response = None
    /\ task_data = <<>>
    /\ outcome = NoOutcome
    /\ speech = ""
    /\ add_task_result = "none"
    /\ raised = "none"
    /\ calls = <<>>
    /\ inflight = {}

\* CONF_VIKUNJA_URL values of the entries
Urls == {"https://a.example", "https://b.example"}

\* result types of hass.config_entries.flow.async_init, or an exception
FlowResults == {"create_entry", "abort", "form", "raise"}

Range(f) == {f[x] : x \in DOMAIN f}

\* hass.config_entries.async_entries(OLD_DOMAIN) as a list of entry ids
RECURSIVE EntryList(_)
EntryList(ids) ==
    IF ids = {} THEN <<>>
    ELSE LET first == CHOOSE i \in ids : \A j \in ids : i <= j
         IN  <<first>> \o EntryList(ids \ {first})

\* the entries without the entry e
Without(entries, e) == [x \in (DOMAIN entries) \ {e} |-> entries[x]]

\* `existing_new`: the new-domain entries with the URL of the old entry
ExistingNew(e) == {u \in new_entries : u = old_entries[e]}

\* `if result.get("type") == "create_entry"`
FlowSucceededAlways(result) == TRUE
FlowSucceeded(result) == result = "create_entry"

InitMigrate ==
    /\ \E k \in 0..MaxOldEntries : old_entries \in [1..k -> Urls]
    /\ new_entries \in SUBSET Urls
    /\ migrate_pc = "idle"
    /\ todo = <<>>
    /\ data_old \in BOOLEAN
    /\ data_new \in BOOLEAN
    /\ runs = 0
    /\ original_urls = Range(old_entries)
    /\ last_removed = NoRemoval
    /\ PipelineAtRest
    /\ PromptAtRest
    /\ CacheAtRest

\* the end of async_migrate_old_domain after the loop (the copy of the runtime
\* data) and the rest of async_setup (`hass.data.setdefault(DOMAIN, {})`)
FinishSetup ==
    /\ migrate_pc' = "idle"
    /\ todo' = <<>>
    /\ data_old' = FALSE
    /\ data_new' = TRUE
    /\ runs' = runs + 1

\* async_setup calls async_migrate_old_domain; without old entries it returns at
\* once and async_setup initialises the new domain
StartMigration ==
    /\ migrate_pc = "idle"
    /\ runs < MaxRuns
    /\ IF old_entries = <<>>
       THEN /\ migrate_pc' = "idle"
            /\ todo' = <<>>
            /\ data_new' = TRUE
            /\ runs' = runs + 1
            /\ UNCHANGED data_old
       ELSE /\ migrate_pc' = "loop"
            /\ todo' = EntryList(DOMAIN old_entries)
            /\ UNCHANGED <<data_old, data_new, runs>>
    /\ UNCHANGED <<old_entries, new_entries, original_urls, last_removed>>
    /\ UNCHANGED <<pipelineVars, promptVars, cacheVars>>

\* one iteration of the loop up to its await: the removal of an old entry whose
\* URL a new entry holds, or the start of the import flow
VisitEntry ==
    /\ migrate_pc = "loop"
    /\ todo # <<>>
    /\ IF ExistingNew(Head(todo)) # {}
       THEN /\ migrate_pc' = "removing"
            /\ last_removed' = [entry_id |-> Head(todo), url |-> old_entries[Head(todo)],
                                why |-> "exists"]
       ELSE /\ migrate_pc' = "flow"
            /\ UNCHANGED last_removed
    /\ UNCHANGED <<old_entries, new_entries, todo, data_old, data_new, runs, original_urls>>
    /\ UNCHANGED <<pipelineVars, promptVars, cacheVars>>

\* the import flow returns: a create_entry result means the flow manager has
\* created the new entry from old_entry.data; an exception ends the migration
flow_returns(result) ==
    /\ CASE result = "raise" ->
              /\ migrate_pc' = "idle"
              /\ todo' = <<>>
              /\ runs' = runs + 1
              /\ UNCHANGED <<new_entries, last_removed>>
         [] OTHER ->
              /\ new_entries' = IF result = "create_entry"
                                THEN new_entries \cup {old_entries[Head(todo)]}
                                ELSE new_entries
              /\ IF FlowSucceeded(result)
                 THEN /\ migrate_pc' = "removing"
                      /\ last_removed' = [entry_id |-> Head(todo),
                                          url |-> old_entries[Head(todo)],
                                          why |-> "created"]
                      /\ UNCHANGED todo
                 ELSE /\ migrate_pc' = "loop"
                      /\ todo' = Tail(todo)
                      /\ UNCHANGED last_removed
              /\ UNCHANGED runs
    /\ UNCHANGED <<old_entries, data_old, data_new, original_urls>>

FlowReturns ==
    /\ migrate_pc = "flow"
    /\ \E result \in FlowResults : flow_returns(result)
    /\ UNCHANGED <<pipelineVars, promptVars, cacheVars>>

\* `await hass.config_entries.async_remove(old_entry.entry_id)` completes
RemoveReturns ==
    /\ migrate_pc = "removing"
    /\ old_entries' = Without(old_entries, Head(todo))
    /\ todo' = Tail(todo)
    /\ migrate_pc' = "loop"
    /\ UNCHANGED <<new_entries, data_old, data_new, runs, original_urls, last_removed>>
    /\ UNCHANGED <<pipelineVars, promptVars, cacheVars>>

\* the loop is over
FinishMigration ==
    /\ migrate_pc = "loop"
    /\ todo = <<>>
    /\ FinishSetup
    /\ UNCHANGED <<old_entries, new_entries, original_urls, last_removed>>
    /\ UNCHANGED <<pipelineVars, promptVars, cacheVars>>

NextMigrate ==
    \/ StartMigration
    \/ VisitEntry
    \/ FlowReturns
    \/ RemoveReturns
    \/ FinishMigration

SpecMigrate == InitMigrate /\ [][NextMigrate]_vars

\* the old entries a step removes
RemovedNow == (DOMAIN old_entries) \ (DOMAIN old_entries')

\* C16: an old-domain entry is removed only when a new-domain entry with the same
\* URL already exists or its creation has just reported create_entry; an old
\* entry whose flow does not report create_entry stays; so after any number of
\* runs every old entry's URL is held by a remaining old entry or by a new-domain
\* entry, and a run with no old entries left changes no entry.
C16_MigrationKeepsUrls ==
    /\ [](\A u \in original_urls : u \in Range(old_entries) \cup new_entries)
    /\ [][ /\ \A e \in RemovedNow :
                /\ old_entries[e] \in new_entries
                /\ last_removed.entry_id = e
                /\ last_removed.why \in {"exists", "created"}
           /\ \A e \in (DOMAIN old_entries) \ RemovedNow : old_entries'[e] = old_entries[e]
           /\ (migrate_pc = "flow" /\ new_entries' = new_entries) =>
                  (old_entries' = old_entries /\ migrate_pc' # "removing")
           /\ (migrate_pc = "idle" /\ old_entries = <<>>) =>
                  (old_entries' = old_entries /\ new_entries' = new_entries
                   /\ migrate_pc' = "idle")
           /\ new_entries \subseteq new_entries'
         ]_vars

\* one old entry whose flow did not create an entry is still there after a run
\* that migrated another one
C16_Witness ==
    /\ migrate_pc = "idle"
    /\ runs >= 1
    /\ last_removed.why = "created"
    /\ DOMAIN old_entries = {1}
    /\ old_entries[1] \notin new_entries

---------------------------------------------------------------------------
(* async_setup_entry, async_unload_entry and the user cache manager *)

\* id -> display name mappings of the remote user list, as sets of pairs
UserMappings ==
    {{}, {<<1, "ann">>}, {<<1, "ann">>, <<2, "bob">>}}

\* the durable store: absent, unreadable, or a persisted snapshot
StoreStates ==
    {[state |-> "absent", users |-> {}], [state |-> "corrupt", users |-> {}]}
    \cup {[state |-> "ok", users |-> m] : m \in UserMappings}

\* results of fetching the remote user list
UserFetchResults ==
    {[ok |-> FALSE, users |-> {}]} \cup {[ok |-> TRUE, users |-> m] : m \in UserMappings}

\* load(): a missing or corrupt store gives an empty snapshot
Loaded(st) == IF st.state = "ok" THEN st.users ELSE {}

\* refresh(force): "if a refresh is already in flight and force is false,
\* returns immediately"
CoalescesNever(force) == FALSE
Coalesces(force) == refresh_in_flight /\ ~force

\* the snapshot after a fetch: replaced as a whole on success, untouched on failure
SnapshotAfterFetchClears(result) == IF result.ok THEN result.users ELSE {}
SnapshotAfterFetch(result) == IF result.ok THEN result.users ELSE users

InitCache ==
    /\ entry_state = "not_loaded"
    /\ entry_domain \in {NEW_DOMAIN, OLD_DOMAIN}
    /\ enable_user_assign \in BOOLEAN
    /\ store \in StoreStates
    /\ users = {}
    /\ last_refreshed_at = 0
    /\ refresh_in_flight = FALSE
    /\ fetching = {}
    /\ timer_scheduled = FALSE
    /\ service_registered = FALSE
    /\ setup_refresh_pending = FALSE
    /\ n_started = 0
    /\ last_call = NoCall
    /\ PipelineAtRest
    /\ PromptAtRest
    /\ MigrateAtRest

\* async_setup_entry: the old-domain check, load(), and with user assignment
\* enabled the periodic refresh, the forced refresh of an empty cache (created
\* as a task) and the refresh_user_cache service
SetupEntry ==
    /\ entry_state = "not_loaded"
    /\ IF entry_domain = OLD_DOMAIN
       THEN /\ entry_state' = "setup_failed"
            /\ UNCHANGED <<users, timer_scheduled, setup_refresh_pending, service_registered>>
       ELSE /\ entry_state' = "loaded"
            /\ users' = Loaded(store)
            /\ timer_scheduled' = enable_user_assign
            /\ setup_refresh_pending' = (enable_user_assign /\ Loaded(store) = {})
            /\ service_registered' = enable_user_assign
    /\ UNCHANGED <<entry_domain, enable_user_assign, store, last_refreshed_at,
                   refresh_in_flight, fetching, n_started, last_call>>
    /\ UNCHANGED <<pipelineVars, promptVars, migrateVars>>

\* a call of refresh(force) up to its fetch of the remote user list
refresh(src, force) ==
    /\ n_started < MaxRefreshCalls
    /\ n_started' = n_started + 1
    /\ IF Coalesces(force)
       THEN /\ last_call' = [src |-> src, force |-> force, state |-> "coalesced",
                             n |-> n_started + 1, fetched |-> {}]
            /\ UNCHANGED <<refresh_in_flight, fetching>>
       ELSE /\ refresh_in_flight' = TRUE
            /\ fetching' = fetching \cup {[n |-> n_started + 1, src |-> src, force |-> force]}
            /\ last_call' = [src |-> src, force |-> force, state |-> "fetching",
                             n |-> n_started + 1, fetched |-> {}]
    /\ UNCHANGED <<entry_state, entry_domain, enable_user_assign, store, users,
                   last_refreshed_at, timer_scheduled, service_registered>>

\* the task created at setup starts: refresh(force=True)
StartSetupRefresh ==
    /\ setup_refresh_pending
    /\ setup_refresh_pending' = FALSE
    /\ refresh("setup", TRUE)
    /\ UNCHANGED <<pipelineVars, promptVars, migrateVars>>

\* the period of schedule_periodic_refresh elapses: refresh(force=False)
TimerFires ==
    /\ timer_scheduled
    /\ refresh("periodic", FALSE)
    /\ UNCHANGED setup_refresh_pending
    /\ UNCHANGED <<pipelineVars, promptVars, migrateVars>>

\* the refresh_user_cache service is called: refresh(force=True)
ServiceCall ==
    /\ service_registered
    /\ refresh("service", TRUE)
    /\ UNCHANGED setup_refresh_pending
    /\ UNCHANGED <<pipelineVars, promptVars, migrateVars>>

\* a fetch returns: on success the snapshot is replaced and persisted (a failed
\* write is only logged) and refresh returns true, on failure it returns false
fetch_returns(f, result, written) ==
    /\ fetching' = fetching \ {f}
    /\ refresh_in_flight' = FALSE
    /\ users' = SnapshotAfterFetch(result)
    /\ store' = IF result.ok /\ written THEN [state |-> "ok", users |-> result.users] ELSE store
    /\ last_refreshed_at' = IF result.ok THEN last_refreshed_at + 1 ELSE last_refreshed_at
    /\ last_call' = [src |-> f.src, force |-> f.force,
                     state |-> IF result.ok THEN "returned_true" ELSE "returned_false",
                     n |-> f.n, fetched |-> result.users]
    /\ UNCHANGED <<entry_state, entry_domain, enable_user_assign, timer_scheduled,
                   service_registered, setup_refresh_pending, n_started>>

FetchReturns ==
    /\ fetching # {}
    /\ \E f \in fetching : \E result \in UserFetchResults : \E written \in BOOLEAN :
           fetch_returns(f, result, written)
    /\ UNCHANGED <<pipelineVars, promptVars, migrateVars>>

\* async_unload_entry: `return True`
UnloadEntry ==
    /\ entry_state = "loaded"
    /\ entry_state' = "unloaded"
    /\ UNCHANGED <<entry_domain, enable_user_assign, store, users, last_refreshed_at,
                   refresh_in_flight, fetching, timer_scheduled, service_registered,
                   setup_refresh_pending, n_started, last_call>>
    /\ UNCHANGED <<pipelineVars, promptVars, migrateVars>>

NextCache ==
    \/ SetupEntry
    \/ StartSetupRefresh
    \/ TimerFires
    \/ ServiceCall
    \/ FetchReturns
    \/ UnloadEntry

SpecCache == InitCache /\ [][NextCache]_vars

\* a refresh call returns in this step
ReturnsNow(state) == fetching' # fetching /\ fetching' \subseteq fetching /\ last_call'.state = state

\* C11: after any sequence of load, periodic and forced refreshes, a refresh
\* whose fetch fails leaves the snapshot exactly as it was and returns false,
\* and a refresh whose fetch succeeds replaces the whole snapshot with the
\* fetched mapping in one step: no step shows a mixture of old and new.
C11_FailedRefreshKeepsSnapshot ==
    [][ /\ ReturnsNow("returned_false") =>
               (users' = users /\ last_refreshed_at' = last_refreshed_at /\ store' = store)
        /\ ReturnsNow("returned_true") =>
               (users' = last_call'.fetched /\ last_refreshed_at' > last_refreshed_at)
        /\ fetching' # fetching /\ fetching' \subseteq fetching =>
               last_call'.state \in {"returned_true", "returned_false"}
        /\ users' # users =>
               \/ entry_state = "not_loaded" /\ users' = Loaded(store)
               \/ ReturnsNow("returned_true") /\ users' = last_call'.fetched
      ]_vars

\* a failed refresh has left a loaded or fetched snapshot in place
C11_Witness ==
    /\ last_call.state = "returned_false"
    /\ users = {<<1, "ann">>, <<2, "bob">>}
    /\ last_refreshed_at > 0

C14_OneFetchAtATime == Cardinality(fetching) <= 1

\* C15: after the configuration entry is unloaded the periodic refresh scheduled
\* at setup is cancelled: no further periodic refresh is started.
C15_NoPeriodicRefreshAfterUnload ==
    [][ (entry_state = "unloaded" /\ n_started' # n_started) =>
            last_call'.src # "periodic" ]_vars

=============================================================================
